---- MODULE Spec2Model ----
(***************************************************************************)
(* Model of src/Desktop/amazon_profit_calculator.py: the fee calculation   *)
(* (AmazonFeeCalculator), calculate_profit, the sqlite-backed product      *)
(* cache (Database), the Keepa record extraction (AsyncKeepaAPI) and the   *)
(* batch orchestration (process_product, print_result, main).              *)
(*                                                                         *)
(* Representation of Python values                                         *)
(*   Decimal      an integer number of 1/100 yen (Yen(n) is n yen); every  *)
(*                product price * percent / 100 of a whole-yen price is    *)
(*                exact at this granularity, as it is in Decimal.          *)
(*   Optional[T]  a sequence of length <= 1: << >> is None, <<v>> is v.    *)
(*   str          JAN codes, ASINs and cache keys are TLA+ strings (the    *)
(*                key f"{jan}_{asin}" is built with \o); category names    *)
(*                are sequences of one-character strings, so that lower()  *)
(*                and the substring test `in` are computed.                *)
(*   dict         a record; a key the dict lacks is a field the record     *)
(*                lacks.                                                   *)
(*   call result  [ok |-> TRUE, val |-> v] for a return,                   *)
(*                [ok |-> FALSE, exc |-> name] for a raised exception.     *)
(***************************************************************************)
EXTENDS Integers, Sequences, FiniteSets, TLC

(***************************************************************************)
(* Bounds of the model.                                                    *)
(***************************************************************************)
MaxPriceSteps == 6      \* prices are -250, 0, ..., MaxPriceSteps * 250 yen
MaxRules == 2           \* rules in a fee schedule
MaxProducts == 2        \* entries of one batch input
MaxRuns == 2            \* runs of main against the same cache file

(***************************************************************************)
(* Helpers for the representation.                                         *)
(***************************************************************************)
PercentDivisor == 100

Yen(n) == n * PercentDivisor

Ok(v) == [ok |-> TRUE, val |-> v]

Raise(e) == [ok |-> FALSE, exc |-> e]

Max(a, b) == IF a >= b THEN a ELSE b

HasKey(d, k) == k \in DOMAIN d

\* str.lower() on one character
LowerChar(c) ==
    CASE c = "A" -> "a"
      [] c = "B" -> "b"
      [] c = "C" -> "c"
      [] OTHER -> c

\* str.lower()
Lower(s) == [i \in 1..Len(s) |-> LowerChar(s[i])]

\* Python `sub in s` on strings
Contains(sub, s) ==
    \E k \in 0..(Len(s) - Len(sub)) : SubSeq(s, k + 1, k + Len(sub)) = sub

(***************************************************************************)
(* AmazonFeeCalculator                                                     *)
(*                                                                         *)
(* fee_structure (the loaded JSON policy):                                 *)
(*   [fee_structure |-> <<cat, ...>>, default_fee_rate |-> percent,        *)
(*    default_minimum_fee |-> yen]                                         *)
(*   cat  = [category |-> name, fee_rate |-> r, minimum_fee |-> Optional   *)
(*           yen]   (<< >> is the sentinel string meaning "none")          *)
(*   r    = [isStr |-> TRUE, pct |-> percent]       a percentage string    *)
(*        | [isStr |-> FALSE, tiers |-> <<tier,..>>] a list of tiers       *)
(*   tier = [condition |-> [le |-> contains "yen or less",                 *)
(*                          gt |-> contains "over yen",                    *)
(*                          threshold |-> number before the first yen      *)
(*                                        sign],                           *)
(*           rate |-> percent]                                             *)
(***************************************************************************)
RECURSIVE TieredFrom(_, _, _)
TieredFrom(price, fee_rates, k) ==
    IF k > Len(fee_rates)
    THEN Raise("ValueError")
    ELSE LET rate == fee_rates[k]
             condition == rate.condition
             threshold == Yen(condition.threshold)
         IN  IF condition.le
             THEN IF price <= threshold
                  THEN Ok((price * rate.rate) \div PercentDivisor)
                  ELSE TieredFrom(price, fee_rates, k + 1)
             ELSE IF condition.gt
                  THEN IF price > threshold
                       THEN Ok((price * rate.rate) \div PercentDivisor)
                       ELSE TieredFrom(price, fee_rates, k + 1)
                  ELSE TieredFrom(price, fee_rates, k + 1)

\* variant: a price no tier matches falls back to a 10% rate
TieredFallsBack(price, fee_rates) ==
    LET r == TieredFrom(price, fee_rates, 1)
    IN  IF r.ok THEN r ELSE Ok((price * 10) \div PercentDivisor)

_calculate_tiered_fee(price, fee_rates) == TieredFrom(price, fee_rates, 1)

\* the minimum fee of a rule: the sentinel counts as Decimal('0')
MinimumFee(cat) ==
    IF cat.minimum_fee # << >> THEN Yen(cat.minimum_fee[1]) ELSE 0

\* variant: the minimum fee of the matched rule is not applied
MatchedFeeNoFloor(price, cat) ==
    IF cat.fee_rate.isStr
    THEN Ok((price * cat.fee_rate.pct) \div PercentDivisor)
    ELSE _calculate_tiered_fee(price, cat.fee_rate.tiers)

\* the body of the loop of calculate_fees for the matched rule cat
MatchedFee(price, cat) ==
    LET fee == IF cat.fee_rate.isStr
               THEN Ok((price * cat.fee_rate.pct) \div PercentDivisor)
               ELSE _calculate_tiered_fee(price, cat.fee_rate.tiers)
    IN  IF fee.ok THEN Ok(Max(fee.val, MinimumFee(cat))) ELSE fee

\* variant: the default minimum fee is not applied
DefaultFeeNoFloor(fs, price) ==
    Ok((price * fs.default_fee_rate) \div PercentDivisor)

\* the fall-through of calculate_fees: no rule matched
DefaultFee(fs, price) ==
    Ok(Max((price * fs.default_fee_rate) \div PercentDivisor,
           Yen(fs.default_minimum_fee)))

\* variant: the containment test the other way round
CategoryMatchesReversed(cat, category) ==
    Contains(Lower(category), Lower(cat.category))

CategoryMatches(cat, category) ==
    Contains(Lower(cat.category), Lower(category))

RECURSIVE FeesFrom(_, _, _, _)
FeesFrom(fs, price, category, k) ==
    IF k > Len(fs.fee_structure)
    THEN DefaultFee(fs, price)
    ELSE IF CategoryMatches(fs.fee_structure[k], category)
         THEN MatchedFee(price, fs.fee_structure[k])
         ELSE FeesFrom(fs, price, category, k + 1)

\* variant: the last matching rule of the schedule is applied
calculate_fees_last_match(fs, price, category) ==
    LET matching == {k \in 1..Len(fs.fee_structure) :
                        CategoryMatches(fs.fee_structure[k], category)}
    IN  IF matching = {} THEN DefaultFee(fs, price)
        ELSE MatchedFee(price,
                 fs.fee_structure[CHOOSE k \in matching :
                                     \A j \in matching : j <= k])

calculate_fees(fs, price, category) == FeesFrom(fs, price, category, 1)

(***************************************************************************)
(* calculate_profit                                                        *)
(***************************************************************************)
\* round(n / d, 0) with Decimal's ROUND_HALF_EVEN, for d > 0
RoundHalfEven(n, d) ==
    LET q == n \div d
        r == n % d
    IN  IF 2 * r < d THEN q
        ELSE IF 2 * r > d THEN q + 1
        ELSE IF q % 2 = 0 THEN q ELSE q + 1

\* round(n / d, 0) for any d: Decimal division by zero raises
RoundedQuotient(n, d) ==
    IF d = 0 THEN Raise("DivisionByZero")
    ELSE IF d < 0 THEN Ok(RoundHalfEven(0 - n, 0 - d))
    ELSE Ok(RoundHalfEven(n, d))

\* variant: the margin is computed without the selling_price > 0 guard
ProfitMarginUnguarded(profit, selling_price) ==
    RoundedQuotient(profit * PercentDivisor * PercentDivisor, selling_price)

\* profit_margin, in 1/100 percent
ProfitMargin(profit, selling_price) ==
    IF selling_price > 0
    THEN RoundedQuotient(profit * PercentDivisor * PercentDivisor,
                         selling_price)
    ELSE Ok(0)

\* variant: the fee is not deducted
ProfitIgnoresFees(selling_price, purchase_price, fees) ==
    selling_price - purchase_price

Profit(selling_price, purchase_price, fees) ==
    selling_price - purchase_price - fees

calculate_profit(fs, selling_price, purchase_price, category) ==
    LET fees == calculate_fees(fs, selling_price, category)
    IN  IF ~fees.ok THEN fees
        ELSE LET profit == Profit(selling_price, purchase_price, fees.val)
                 profit_margin == ProfitMargin(profit, selling_price)
             IN  IF ~profit_margin.ok THEN profit_margin
                 ELSE Ok([selling_price |-> selling_price,
                          purchase_price |-> purchase_price,
                          fees |-> fees.val,
                          profit |-> profit,
                          profit_margin |-> profit_margin.val])

(***************************************************************************)
(* AsyncKeepaAPI: the record extracted from a raw Keepa product.           *)
(*                                                                         *)
(* A raw product is a dict that may lack any key; a JSON null is the       *)
(* Optional << >>.  categoryTree is Optional list of category dicts, csv   *)
(* is Optional list of Optional list of int.                               *)
(***************************************************************************)
None == << >>

Some(v) == <<v>>

\* dict.get(k, default)
Get(d, k, default) == IF HasKey(d, k) THEN d[k] ELSE default

\* {**a, **b}
Merge(a, b) ==
    [k \in DOMAIN a \cup DOMAIN b |-> IF k \in DOMAIN b THEN b[k] ELSE a[k]]

get_current_price(product) ==
    LET csv == Get(product, "csv", Some(<< >>))
    IN  IF csv # None /\ Len(csv[1]) > 0 /\ Len(csv[1]) > 1
        THEN IF csv[1][2] = None
             THEN Raise("TypeError")             \* len(None)
             ELSE IF Len(csv[1][2][1]) > 0
                  THEN LET row == csv[1][2][1]
                           current_price == row[Len(row)]
                       IN  Ok(IF current_price > 0
                              THEN Some(current_price) ELSE None)
                  ELSE Ok(None)
        ELSE Ok(None)

extract_product_info(product) ==
    LET current_price == get_current_price(product)
    IN  IF ~current_price.ok THEN current_price
        ELSE Ok([title |-> Get(product, "title", "N/A"),
                 asin |-> Get(product, "asin", "N/A"),
                 brand |-> Get(product, "brand", "N/A"),
                 categories |-> Get(product, "categoryTree", Some(<< >>)),
                 current_price |-> current_price.val,
                 rating |-> Get(product, "rating", "N/A"),
                 review_count |-> Get(product, "reviewCount", "N/A")])

RECURSIVE ExtractFrom(_, _, _)
ExtractFrom(raws, k, acc) ==
    IF k > Len(raws) THEN Ok(acc)
    ELSE LET info == extract_product_info(raws[k])
         IN  IF info.ok THEN ExtractFrom(raws, k + 1, Append(acc, info.val))
             ELSE info

\* get_product_details once the HTTP exchange has ended with `outcome`:
\*   "ok"            the response body holds the products `raws`
\*   "client_error"  aiohttp.ClientError after the retries: caught, []
\*   "timeout"       any other exception (asyncio.TimeoutError): propagates
\* The exchange for one JAN code ends the same way each time it is made.
get_product_details(outcome, raws) ==
    IF outcome = "client_error" THEN Ok(<< >>)
    ELSE IF outcome = "timeout" THEN Raise("TimeoutError")
    ELSE IF Len(raws) > 0 THEN ExtractFrom(raws, 1, << >>)
    ELSE Ok(<< >>)

(***************************************************************************)
(* Database: the products table, jan (primary key) -> data (JSON text).    *)
(***************************************************************************)
json_dumps(data) == [json |-> data]

json_loads(text) == text.json

\* variant: the lookup never finds a row
get_product_never_found(table, jan) == None

get_product(table, jan) ==
    IF jan \in DOMAIN table THEN Some(json_loads(table[jan])) ELSE None

\* INSERT OR REPLACE
save_product(table, jan, data) ==
    [k \in DOMAIN table \cup {jan} |->
        IF k = jan THEN json_dumps(data) ELSE table[k]]

\* variant: the product is saved under the JAN code alone
CacheKeyJanOnly(jan_code, product) == jan_code

\* the key process_product saves a fetched product under
CacheKey(jan_code, product) == jan_code \o "_" \o product.asin

RECURSIVE SaveAll(_, _, _, _)
SaveAll(table, jan_code, product_details, k) ==
    IF k > Len(product_details) THEN table
    ELSE SaveAll(save_product(table,
                              CacheKey(jan_code, product_details[k]),
                              product_details[k]),
                 jan_code, product_details, k + 1)

(***************************************************************************)
(* process_product: the loop over product_details                         *)
(***************************************************************************)
PriceUnavailable == "current price unavailable"

DefaultCategoryName == <<"o", "t", "h", "e", "r">>

\* product.get("categories", [{}])[0].get("name", default)
CategoryOf(product) ==
    LET categories == Get(product, "categories", Some(<<[k \in {} |-> 0]>>))
    IN  IF categories = None THEN Raise("TypeError")
        ELSE IF Len(categories[1]) = 0 THEN Raise("IndexError")
        ELSE Ok(Get(categories[1][1], "name", DefaultCategoryName))

\* the result record for one product of product_details.  Every product is
\* a dict here (extract_product_info and the cache it fills yield nothing
\* else), so the isinstance branch for other types is never taken.
ProductResult(fs, product, purchase_price) ==
    LET current_price == Get(product, "current_price", None)
    IN  IF current_price # None
        THEN LET category == CategoryOf(product)
             IN  IF ~category.ok THEN category
                 ELSE LET profit_info ==
                              calculate_profit(fs, Yen(current_price[1]),
                                               purchase_price, category.val)
                      IN  IF ~profit_info.ok THEN profit_info
                          ELSE Ok(Merge(product, profit_info.val))
        ELSE Ok(Merge(product, [error |-> PriceUnavailable,
                                purchase_price |-> purchase_price]))

\* variant: a failing product ends the loop and the records so far return
RECURSIVE PartialFrom(_, _, _, _, _)
PartialFrom(fs, product_details, purchase_price, k, results) ==
    IF k > Len(product_details) THEN Ok(results)
    ELSE LET r == ProductResult(fs, product_details[k], purchase_price)
         IN  IF r.ok
             THEN PartialFrom(fs, product_details, purchase_price, k + 1,
                              Append(results, r.val))
             ELSE Ok(results)

ResultsFromPartial(fs, product_details, purchase_price, k, results) ==
    PartialFrom(fs, product_details, purchase_price, k, results)

RECURSIVE ResultsFrom(_, _, _, _, _)
ResultsFrom(fs, product_details, purchase_price, k, results) ==
    IF k > Len(product_details) THEN Ok(results)
    ELSE LET r == ProductResult(fs, product_details[k], purchase_price)
         IN  IF r.ok
             THEN ResultsFrom(fs, product_details, purchase_price, k + 1,
                              Append(results, r.val))
             ELSE r

(***************************************************************************)
(* print_result: TRUE when printing the record raises                      *)
(***************************************************************************)
PrintRaises(result) ==
    LET categories == Get(result, "categories", None)
    IN  /\ categories # None
        /\ Len(categories[1]) > 0
        /\ ~HasKey(categories[1][1], "name")


(***************************************************************************)
(* Inputs of the model                                                     *)
(***************************************************************************)
Prices == {Yen(k * 250) : k \in -1..MaxPriceSteps}

\* purchase prices: 0, 99.5 yen, 400 yen
PurchasePrices == {0, 9950, Yen(400)}

Flat(pct) == [isStr |-> TRUE, pct |-> pct]

Tier(le, gt, threshold, pct) ==
    [condition |-> [le |-> le, gt |-> gt, threshold |-> threshold],
     rate |-> pct]

\* "<= 1000 yen: 8%", "> 1000 yen: 15%": the tiers cover every price
TiersPartition ==
    [isStr |-> FALSE,
     tiers |-> <<Tier(TRUE, FALSE, 1000, 8), Tier(FALSE, TRUE, 1000, 15)>>]

\* "<= 500 yen: 8%", a condition of neither wording, "> 1000 yen: 15%":
\* prices in (500, 1000] match no tier
TiersGap ==
    [isStr |-> FALSE,
     tiers |-> <<Tier(TRUE, FALSE, 500, 8), Tier(FALSE, FALSE, 750, 12),
                 Tier(FALSE, TRUE, 1000, 15)>>]

FeeRates == {Flat(10), TiersPartition, TiersGap}

RuleCategories == {<<"A", "b">>, <<"b">>}

Rules ==
    [category : RuleCategories, fee_rate : FeeRates,
     minimum_fee : {None, Some(30)}]

SeqsUpTo(S, n) == UNION {[1..m -> S] : m \in 0..n}

Schedules ==
    [fee_structure : SeqsUpTo(Rules, MaxRules),
     default_fee_rate : {10, 15},
     default_minimum_fee : {30}]

\* category strings of products: empty, no rule's category inside, both
\* rule categories inside (in another case), only "b" inside
Categories == {<< >>, <<"c">>, <<"x", "A", "B">>, <<"B", "c">>}

\* the fee schedule of the batch runs
BatchSchedule ==
    [fee_structure |->
        <<[category |-> <<"A", "b">>, fee_rate |-> Flat(10),
           minimum_fee |-> Some(30)],
          [category |-> <<"c">>, fee_rate |-> TiersGap,
           minimum_fee |-> None]>>,
     default_fee_rate |-> 10,
     default_minimum_fee |-> 30]

\* csv of a raw product whose price history ends with `last`
Csv(last) == Some(<<Some(<< >>), Some(<<300, last>>)>>)

CategoryTree(name) == Some(<<[catId |-> 1, name |-> name]>>)

\* raw products the remote API may hold
RawOkB == [asin |-> "b", categoryTree |-> CategoryTree(<<"x", "A", "B">>),
           csv |-> Csv(500)]
RawOkC == [asin |-> "c", categoryTree |-> CategoryTree(<<"z">>),
           csv |-> Csv(250)]
RawGapC == [asin |-> "c", categoryTree |-> CategoryTree(<<"C">>),
            csv |-> Csv(750)]
RawNoCategoryB == [asin |-> "b", csv |-> Csv(500)]
RawNoNameC == [asin |-> "c", categoryTree |-> Some(<<[catId |-> 1]>>),
               csv |-> Csv(500)]
RawNoPriceB == [asin |-> "b", categoryTree |-> CategoryTree(<<"z">>),
                csv |-> Csv(-1)]
RawNoPriceNoAsin == [title |-> "t"]
RawCsvNullB == [asin |-> "b", csv |-> Some(<<Some(<< >>), None>>)]

\* the product lists the remote API may hold for one JAN code
Responses ==
    { << >>, <<RawOkB>>, <<RawNoCategoryB>>, <<RawNoNameC>>,
      <<RawCsvNullB>>, <<RawOkB, RawOkC>>,
      <<RawNoPriceB, RawOkB>>, <<RawNoPriceNoAsin, RawGapC>> }

JANS == {"a", "a_b"}

Batches ==
    UNION {[1..m -> [jan : JANS, purchase_price : {Yen(400)}]] :
              m \in 1..MaxProducts}

\* how the HTTP exchange for a JAN code ends, and the products in its body
Remotes ==
    {[outcome |-> "ok", products |-> r] : r \in Responses}
        \cup {[outcome |-> o, products |-> << >>] :
                  o \in {"client_error", "timeout"}}

(***************************************************************************)
(* State                                                                   *)
(***************************************************************************)
VARIABLES
    fee_structure,  \* AmazonFeeCalculator.fee_structure
    catalog,        \* the remote API: JAN code -> outcome and products
    db,             \* the products table of the cache file
    conn,           \* Database.conn: "none", "open" or "closed"
    closes,         \* how often db.close() ran in the current run of main
    run,            \* runs of main started so far
    mainpc,         \* "idle", "running" (in the as_completed loop), "done"
    products,       \* the argument of main
    tasks,          \* the process_product tasks of the current run
    done_queue,     \* completed tasks main has not awaited yet, in order
    collected,      \* tasks main has awaited, in order
    results,        \* the local list of main
    returned,       \* the value main returned
    primed,         \* JAN codes a task missed, fetched (>= 1) and cached
    call            \* the last direct call of the fee functions

vars == <<fee_structure, catalog, db, conn, closes, run, mainpc, products,
          tasks, done_queue, collected, results, returned, primed, call>>

batchVars == <<catalog, db, conn, closes, run, mainpc, products, tasks,
               done_queue, collected, results, returned, primed>>

EmptyTable == [k \in {} |-> 0]

Idle ==
    /\ db = EmptyTable
    /\ conn = "none"
    /\ closes = 0
    /\ run = 0
    /\ mainpc = "idle"
    /\ products = << >>
    /\ tasks = << >>
    /\ done_queue = << >>
    /\ collected = << >>
    /\ results = << >>
    /\ returned = << >>
    /\ primed = {}
    /\ call = [op |-> "none"]

(***************************************************************************)
(* The fee functions called directly                                       *)
(***************************************************************************)
InitFee ==
    /\ fee_structure \in Schedules
    /\ catalog = [j \in JANS |-> [outcome |-> "ok", products |-> << >>]]
    /\ Idle

CallCalculateFees ==
    \E price \in Prices, category \in Categories :
        /\ call.op = "none"
        /\ call' = [op |-> "calculate_fees", price |-> price,
                    category |-> category,
                    result |-> calculate_fees(fee_structure, price, category)]
        /\ UNCHANGED <<fee_structure, batchVars>>

CallCalculateProfit ==
    \E selling_price \in Prices, purchase_price \in PurchasePrices,
       category \in Categories :
        /\ call.op = "none"
        /\ call' = [op |-> "calculate_profit",
                    price |-> selling_price,
                    purchase_price |-> purchase_price,
                    category |-> category,
                    result |-> calculate_profit(fee_structure, selling_price,
                                                purchase_price, category)]
        /\ UNCHANGED <<fee_structure, batchVars>>

CallCalculateTieredFee ==
    \E price \in Prices, fee_rate \in {r \in FeeRates : ~r.isStr} :
        /\ call.op = "none"
        /\ call' = [op |-> "_calculate_tiered_fee", price |-> price,
                    fee_rates |-> fee_rate.tiers,
                    result |-> _calculate_tiered_fee(price, fee_rate.tiers)]
        /\ UNCHANGED <<fee_structure, batchVars>>

NextFee ==
    CallCalculateFees \/ CallCalculateTieredFee \/ CallCalculateProfit

SpecFee == InitFee /\ [][NextFee]_vars


(***************************************************************************)
(* main and its process_product tasks                                      *)
(*                                                                         *)
(* A task is [jan, purchase_price, pc, hit, details, ret]: pc is "new"     *)
(* (created, not started), "fetching" (suspended in get_product_details)   *)
(* or "done"; hit tells whether the cache lookup found a record; details   *)
(* is product_details; ret is Optional call result of the coroutine.       *)
(* process_product suspends only in the HTTP exchange, so a task runs in   *)
(* two atomic steps: TaskStart up to the exchange (or to its end on a      *)
(* cache hit) and FetchDone from the end of the exchange to its end.       *)
(***************************************************************************)
Init ==
    /\ fee_structure = BatchSchedule
    /\ catalog \in [JANS -> Remotes]
    /\ Idle

NewTask(product) ==
    [jan |-> product.jan, purchase_price |-> product.purchase_price,
     pc |-> "new", hit |-> FALSE, details |-> << >>, ret |-> None]

\* main up to the first await: the collaborators and one task per product
MainStart ==
    \E batch \in Batches :
        /\ mainpc \in {"idle", "done"}
        /\ run < MaxRuns
        /\ run' = run + 1
        /\ mainpc' = "running"
        /\ products' = batch
        /\ conn' = "open"
        /\ closes' = 0
        /\ tasks' = [i \in 1..Len(batch) |-> NewTask(batch[i])]
        /\ done_queue' = << >>
        /\ collected' = << >>
        /\ results' = << >>
        /\ returned' = << >>
        /\ UNCHANGED <<fee_structure, catalog, db, primed, call>>

\* process_product from its start to the HTTP exchange, or to its end when
\* the cache lookup finds a record
TaskStart(i) ==
    /\ mainpc = "running"
    /\ tasks[i].pc = "new"
    /\ LET t == tasks[i]
           cached_product == get_product(db, t.jan)
       IN  IF cached_product # None
           THEN LET product_details == <<cached_product[1]>>
                    ret == ResultsFrom(fee_structure, product_details,
                                       t.purchase_price, 1, << >>)
                IN  /\ tasks' = [tasks EXCEPT ![i] =
                                    [t EXCEPT !.pc = "done", !.hit = TRUE,
                                              !.details = product_details,
                                              !.ret = Some(ret)]]
                    /\ done_queue' = Append(done_queue, i)
           ELSE /\ tasks' = [tasks EXCEPT ![i] = [t EXCEPT !.pc = "fetching"]]
                /\ UNCHANGED done_queue
    /\ UNCHANGED <<fee_structure, catalog, db, conn, closes, run, mainpc,
                   products, collected, results, returned, primed, call>>

\* process_product from the end of the HTTP exchange to its end.  Every
\* task reaches its exchange before any exchange ends: the event loop runs
\* the first step of all scheduled tasks before it polls the sockets.
FetchDone(i) ==
    /\ mainpc = "running"
    /\ tasks[i].pc = "fetching"
    /\ \A j \in DOMAIN tasks : tasks[j].pc # "new"
    /\ LET t == tasks[i]
           fetched == get_product_details(catalog[t.jan].outcome,
                                          catalog[t.jan].products)
       IN  IF ~fetched.ok
           THEN /\ tasks' = [tasks EXCEPT ![i] =
                                [t EXCEPT !.pc = "done",
                                          !.ret = Some(fetched)]]
                /\ UNCHANGED <<db, primed>>
           ELSE LET product_details == fetched.val
                    ret == ResultsFrom(fee_structure, product_details,
                                       t.purchase_price, 1, << >>)
                IN  /\ db' = SaveAll(db, t.jan, product_details, 1)
                    /\ primed' = IF Len(product_details) > 0
                                 THEN primed \cup {t.jan} ELSE primed
                    /\ tasks' = [tasks EXCEPT ![i] =
                                    [t EXCEPT !.pc = "done",
                                              !.details = product_details,
                                              !.ret = Some(ret)]]
    /\ done_queue' = Append(done_queue, i)
    /\ UNCHANGED <<fee_structure, catalog, conn, closes, run, mainpc,
                   products, collected, results, returned, call>>

\* variant: the records of the awaited task go in front of the results
CollectPrepends ==
    /\ mainpc = "running"
    /\ done_queue # << >>
    /\ LET i == Head(done_queue)
           ret == tasks[i].ret[1]
       IN  /\ results' = IF ret.ok THEN ret.val \o results ELSE results
           /\ collected' = Append(collected, i)
    /\ done_queue' = Tail(done_queue)
    /\ UNCHANGED <<fee_structure, catalog, db, conn, closes, run, mainpc,
                   products, tasks, returned, primed, call>>

\* one iteration of the as_completed loop of main: await the next completed
\* task, extend results with what it returned or log what it raised
Collect ==
    /\ mainpc = "running"
    /\ done_queue # << >>
    /\ LET i == Head(done_queue)
           ret == tasks[i].ret[1]
       IN  /\ results' = IF ret.ok THEN results \o ret.val ELSE results
           /\ collected' = Append(collected, i)
    /\ done_queue' = Tail(done_queue)
    /\ UNCHANGED <<fee_structure, catalog, db, conn, closes, run, mainpc,
                   products, tasks, returned, primed, call>>

\* variant: the outer handler returns [] without closing the cache
FinishLeavesOpenOnError ==
    /\ mainpc = "running"
    /\ Len(collected) = Len(tasks)
    /\ IF \E k \in 1..Len(results) : PrintRaises(results[k])
       THEN returned' = << >> /\ UNCHANGED <<conn, closes>>
       ELSE returned' = results /\ conn' = "closed" /\ closes' = closes + 1
    /\ mainpc' = "done"
    /\ UNCHANGED <<fee_structure, catalog, db, run, products, tasks,
                   done_queue, collected, results, primed, call>>

\* main after the loop: print every result, close the cache, return; a
\* print that raises takes the outer handler, which closes and returns []
Finish ==
    /\ mainpc = "running"
    /\ Len(collected) = Len(tasks)
    /\ returned' = IF \E k \in 1..Len(results) : PrintRaises(results[k])
                   THEN << >> ELSE results
    /\ conn' = "closed"
    /\ closes' = closes + 1
    /\ mainpc' = "done"
    /\ UNCHANGED <<fee_structure, catalog, db, run, products, tasks,
                   done_queue, collected, results, primed, call>>

Next ==
    \/ MainStart
    \/ \E i \in DOMAIN tasks : TaskStart(i)
    \/ \E i \in DOMAIN tasks : FetchDone(i)
    \/ Collect
    \/ Finish

Spec == Init /\ [][Next]_vars


(***************************************************************************)
(* Properties of the fee functions (checked under SpecFee)                 *)
(***************************************************************************)
\* name occurs in category at some offset, letter case ignored
NameWithin(name, category) ==
    \E a \in 0..Len(category) :
        /\ a + Len(name) <= Len(category)
        /\ \A j \in 1..Len(name) :
              LowerChar(category[a + j]) = LowerChar(name[j])

\* the rules of the schedule whose category the product category contains
MatchingRules(fs, category) ==
    {k \in 1..Len(fs.fee_structure) :
        NameWithin(fs.fee_structure[k].category, category)}

Least(S) == CHOOSE k \in S : \A j \in S : k <= j

\* the condition of a tier read as LessOrEqual / GreaterThan
TierHolds(price, tier) ==
    \/ tier.condition.le /\ price <= Yen(tier.condition.threshold)
    \/ ~tier.condition.le /\ tier.condition.gt
          /\ price > Yen(tier.condition.threshold)

HoldingTiers(price, fee_rates) ==
    {k \in 1..Len(fee_rates) : TierHolds(price, fee_rates[k])}

\* what the tiers owe for price: the first holding tier's rate, or the
\* failure when no tier holds
TierFee(price, fee_rates) ==
    IF HoldingTiers(price, fee_rates) = {}
    THEN Raise("ValueError")
    ELSE Ok((price * fee_rates[Least(HoldingTiers(price, fee_rates))].rate)
                \div PercentDivisor)

FeesCallMatched ==
    /\ call.op \in {"calculate_fees", "calculate_profit"}
    /\ MatchingRules(fee_structure, call.category) # {}

MatchedRule ==
    fee_structure.fee_structure[Least(MatchingRules(fee_structure,
                                                    call.category))]

\* C4: a matched tiered rule charges price * rate of the first tier whose
\* condition holds (the rule's minimum fee applied on top); a price no tier
\* holds for fails with the tier error, never with a default-rate fee; and
\* the tiers of a schedule without gaps hold for every price exactly once.
C4_TieredFirstMatch ==
    /\ call.op = "_calculate_tiered_fee"
          => call.result = TierFee(call.price, call.fee_rates)
    /\ (call.op = "calculate_fees" /\ FeesCallMatched
            /\ ~MatchedRule.fee_rate.isStr)
          => LET fee == TierFee(call.price, MatchedRule.fee_rate.tiers)
             IN  call.result =
                    IF fee.ok
                    THEN Ok(Max(fee.val, MinimumFee(MatchedRule)))
                    ELSE Raise("ValueError")
    /\ (call.op = "_calculate_tiered_fee"
            /\ call.fee_rates = TiersPartition.tiers)
          => /\ Cardinality(HoldingTiers(call.price, call.fee_rates)) = 1
             /\ call.result.ok

C4_Witness ==
    /\ call.op = "calculate_fees"
    /\ FeesCallMatched
    /\ ~MatchedRule.fee_rate.isStr
    /\ HoldingTiers(call.price, MatchedRule.fee_rate.tiers) = {}
    /\ call.result = Raise("ValueError")

\* C5: when the matched rule is flat-rate, calculate_fees returns
\* max(price * rate, minimum), the minimum "none" counting as 0.
C5_FlatRateFee ==
    (call.op = "calculate_fees" /\ FeesCallMatched
        /\ MatchedRule.fee_rate.isStr)
      => call.result =
            Ok(Max((call.price * MatchedRule.fee_rate.pct) \div PercentDivisor,
                   IF MatchedRule.minimum_fee = None THEN 0
                   ELSE Yen(MatchedRule.minimum_fee[1])))

C5_Witness ==
    /\ call.op = "calculate_fees"
    /\ FeesCallMatched
    /\ MatchedRule.fee_rate.isStr
    /\ MatchedRule.minimum_fee # None
    /\ call.price > 0
    /\ call.result = Ok(Yen(MatchedRule.minimum_fee[1]))

\* C6: when the category matches no rule, calculate_fees returns
\* max(price * default rate, default minimum) and never raises, whatever
\* rules the schedule holds.
C6_DefaultPath ==
    (call.op = "calculate_fees"
        /\ MatchingRules(fee_structure, call.category) = {})
      => call.result =
            Ok(Max((call.price * fee_structure.default_fee_rate)
                       \div PercentDivisor,
                   Yen(fee_structure.default_minimum_fee)))

C6_Witness ==
    /\ call.op = "calculate_fees"
    /\ call.category = << >>
    /\ Len(fee_structure.fee_structure) = MaxRules
    /\ \A k \in 1..Len(fee_structure.fee_structure) :
          /\ fee_structure.fee_structure[k].fee_rate = TiersGap
          /\ HoldingTiers(call.price, TiersGap.tiers) = {}
    /\ call.result.ok

\* C10: every report of calculate_profit satisfies
\* profit + fees + purchase_price = selling_price.
C10_ProfitRoundTrip ==
    (call.op = "calculate_profit" /\ call.result.ok)
      => /\ call.result.val.profit + call.result.val.fees
               + call.result.val.purchase_price
            = call.result.val.selling_price
         /\ call.result.val.selling_price = call.price
         /\ call.result.val.purchase_price = call.purchase_price

C10_Witness ==
    /\ call.op = "calculate_profit"
    /\ call.result.ok
    /\ FeesCallMatched
    /\ ~MatchedRule.fee_rate.isStr
    /\ call.result.val.fees > 0
    /\ call.result.val.profit < 0
    /\ call.purchase_price = 9950


\* the minimum fee the call had to respect: the first matching rule's, or
\* the default minimum when no rule matches
AppliedMinimum ==
    IF MatchingRules(fee_structure, call.category) = {}
    THEN Yen(fee_structure.default_minimum_fee)
    ELSE IF MatchedRule.minimum_fee = None THEN 0
         ELSE Yen(MatchedRule.minimum_fee[1])

\* C11: every fee calculate_fees returns is >= 0 and >= the minimum fee of
\* the rule that was applied (the default minimum on the default path).
C11_FeeAtLeastMinimum ==
    (call.op = "calculate_fees" /\ call.result.ok)
      => /\ call.result.val >= 0
         /\ call.result.val >= AppliedMinimum

C11_Witness ==
    /\ call.op = "calculate_fees"
    /\ call.result.ok
    /\ MatchingRules(fee_structure, call.category) = {}
    /\ call.price > 0
    /\ (call.price * fee_structure.default_fee_rate) \div PercentDivisor
          < Yen(fee_structure.default_minimum_fee)
    /\ call.result.val = AppliedMinimum

\* C14: calculate_profit with selling_price = 0 raises no division error
\* and, whenever the fee resolution succeeds, reports a profit margin of 0.
C14_ZeroPriceMargin ==
    (call.op = "calculate_profit" /\ call.price = 0)
      => IF call.result.ok
         THEN call.result.val.profit_margin = 0
         ELSE /\ call.result.exc = "ValueError"
              /\ FeesCallMatched
              /\ ~MatchedRule.fee_rate.isStr
              /\ HoldingTiers(0, MatchedRule.fee_rate.tiers) = {}

C14_Witness ==
    /\ call.op = "calculate_profit"
    /\ call.price = 0
    /\ call.purchase_price > 0
    /\ call.result.ok
    /\ call.result.val.profit < 0
    /\ call.result.val.profit_margin = 0

\* what one rule owes for price: rate or first holding tier, floored by the
\* rule's minimum fee, or the tier failure
RuleFee(price, rule) ==
    LET floor == IF rule.minimum_fee = None THEN 0
                 ELSE Yen(rule.minimum_fee[1])
    IN  IF rule.fee_rate.isStr
        THEN Ok(Max((price * rule.fee_rate.pct) \div PercentDivisor, floor))
        ELSE IF HoldingTiers(price, rule.fee_rate.tiers) = {}
             THEN Raise("ValueError")
             ELSE Ok(Max(TierFee(price, rule.fee_rate.tiers).val, floor))

\* C15: when the category matches several rules, the result is the one of
\* the first matching rule in schedule order: its rate, its minimum fee and
\* its tier failure; later matching rules and the default play no part.
C15_FirstMatchingRuleWins ==
    (call.op = "calculate_fees"
        /\ Cardinality(MatchingRules(fee_structure, call.category)) >= 2)
      => call.result = RuleFee(call.price, MatchedRule)

C15_Witness ==
    /\ call.op = "calculate_fees"
    /\ Cardinality(MatchingRules(fee_structure, call.category)) >= 2
    /\ ~call.result.ok
    /\ \E k \in MatchingRules(fee_structure, call.category) :
          RuleFee(call.price, fee_structure.fee_structure[k]).ok

(***************************************************************************)
(* Properties of the batch runs (checked under Spec)                       *)
(***************************************************************************)
Returned(i) == tasks[i].pc = "done" /\ tasks[i].ret[1].ok

Raised(i) == tasks[i].pc = "done" /\ ~tasks[i].ret[1].ok

\* the records task i returned are all among the records main returned
RecordsReturned(i) ==
    \A k \in 1..Len(tasks[i].ret[1].val) :
        \E m \in 1..Len(returned) : returned[m] = tasks[i].ret[1].val[k]

\* C1: when main has finished, every entry of the input list has a record
\* of its own in the returned results.
C1_OneRecordPerProduct ==
    mainpc = "done"
      => \A i \in DOMAIN products :
            /\ Returned(i)
            /\ Len(tasks[i].ret[1].val) >= 1
            /\ RecordsReturned(i)

\* C2: a process_product for a JAN code that an earlier process_product
\* missed, fetched and cached finds it in the cache and starts no fetch.
C2_CachedJanIsNotFetchedAgain ==
    [][\A i \in DOMAIN tasks :
          (mainpc = "running" /\ mainpc' = "running"
              /\ tasks[i].pc = "new" /\ tasks'[i].pc # "new"
              /\ tasks[i].jan \in primed)
            => (tasks'[i].hit /\ tasks'[i].pc # "fetching")]_vars

\* C3: when a task raised, main has still awaited every task and returns
\* all records of the tasks that returned.
C3_FailuresAreIsolated ==
    (mainpc = "done" /\ \E i \in DOMAIN tasks : Raised(i))
      => /\ Len(collected) = Len(tasks)
         /\ \A j \in DOMAIN tasks : Returned(j) => RecordsReturned(j)

\* a record without the expected category structure
LacksStructure(product) ==
    \/ product.categories = None
    \/ Len(product.categories[1]) = 0
    \/ ~HasKey(product.categories[1][1], "name")

\* C7: a record that lacks the expected structure gets an error record and
\* process_product does not raise.
C7_MalformedRecordIsReported ==
    \A i \in DOMAIN tasks :
        (tasks[i].pc = "done"
            /\ \E k \in 1..Len(tasks[i].details) :
                  LacksStructure(tasks[i].details[k]))
          => /\ Returned(i)
             /\ \A k \in 1..Len(tasks[i].details) :
                   LacksStructure(tasks[i].details[k])
                     => HasKey(tasks[i].ret[1].val[k], "error")

\* C8: every record without a current price gets exactly one output record
\* with the price-unavailable marker and the purchase price and without a
\* computed fee; process_product does not raise or drop it.
C8_PriceUnavailableIsReported ==
    \A i \in DOMAIN tasks :
        (tasks[i].pc = "done"
            /\ \E k \in 1..Len(tasks[i].details) :
                  tasks[i].details[k].current_price = None)
          => /\ Returned(i)
             /\ Len(tasks[i].ret[1].val) = Len(tasks[i].details)
             /\ \A k \in 1..Len(tasks[i].details) :
                   tasks[i].details[k].current_price = None
                     => /\ HasKey(tasks[i].ret[1].val[k], "error")
                        /\ tasks[i].ret[1].val[k].error = PriceUnavailable
                        /\ tasks[i].ret[1].val[k].purchase_price
                              = tasks[i].purchase_price
                        /\ ~HasKey(tasks[i].ret[1].val[k], "fees")

\* the fetch of task i ended without an exception and with no product
FetchedNothing(i) ==
    /\ tasks[i].pc = "done"
    /\ ~tasks[i].hit
    /\ \/ catalog[tasks[i].jan].outcome = "client_error"
       \/ /\ catalog[tasks[i].jan].outcome = "ok"
          /\ catalog[tasks[i].jan].products = << >>

\* C9: when the fetch yields no product record, process_product does not
\* raise and returns a record that marks the product as not found.
C9_NotFoundIsReported ==
    \A i \in DOMAIN tasks :
        FetchedNothing(i)
          => /\ Returned(i)
             /\ \E k \in 1..Len(tasks[i].ret[1].val) :
                   HasKey(tasks[i].ret[1].val[k], "error")


\* task i takes a step of process_product in this transition
TaskSteps(i) ==
    /\ mainpc = "running"
    /\ mainpc' = "running"
    /\ tasks'[i] # tasks[i]

\* C12: process_product consults the cache first: it goes to the fetch only
\* from its start and only when the table has no row for its JAN code; when
\* the table has one, the task uses exactly that record and ends without a
\* fetch and without a cache write.
C12_CacheConsultedFirst ==
    [][\A i \in DOMAIN tasks :
          TaskSteps(i)
            => /\ tasks'[i].pc = "fetching"
                    => /\ tasks[i].pc = "new"
                       /\ tasks[i].jan \notin DOMAIN db
               /\ (tasks[i].pc = "new" /\ tasks[i].jan \in DOMAIN db)
                    => /\ tasks'[i].hit
                       /\ tasks'[i].pc = "done"
                       /\ tasks'[i].details = <<db[tasks[i].jan].json>>
                       /\ db' = db
               /\ tasks'[i].hit
                    => (tasks[i].pc = "new" /\ tasks[i].jan \in DOMAIN db)]_vars

C12_Witness ==
    \E i \in DOMAIN tasks :
        /\ tasks[i].hit
        /\ tasks[i].pc = "done"
        /\ tasks[i].ret[1].ok
        /\ Len(tasks[i].ret[1].val) = 1

\* the fetch of task i ends in this transition with at least one variant
FetchedVariants(i) ==
    /\ TaskSteps(i)
    /\ tasks[i].pc = "fetching"
    /\ Len(tasks'[i].details) >= 1

\* the composite key of the k-th variant task i fetched
VariantKey(i, k) == tasks[i].jan \o "_" \o tasks'[i].details[k].asin

\* the last variant task i fetched that has the asin of the k-th
LastWithAsinOf(i, k) ==
    LET d == tasks'[i].details
        same == {j \in 1..Len(d) : d[j].asin = d[k].asin}
    IN  d[CHOOSE j \in same : \A m \in same : m <= j]

\* C13 as stated: after a miss and a fetch of n >= 1 variants every variant
\* is retrievable under its composite key and the n keys are distinct.
C13_EveryVariantRetrievable ==
    [][\A i \in DOMAIN tasks :
          FetchedVariants(i)
            => LET n == Len(tasks'[i].details)
               IN  /\ \A k \in 1..n :
                         /\ VariantKey(i, k) \in DOMAIN db'
                         /\ db'[VariantKey(i, k)].json = tasks'[i].details[k]
                   /\ Cardinality({VariantKey(i, k) : k \in 1..n}) = n]_vars

\* C13 amended: every variant is written under the composite key of the
\* identifier and its asin; a key holds the last variant with that asin, so
\* variants with pairwise distinct asins are all retrievable and variants
\* sharing an asin leave one entry; no other row of the table changes.
C13_VariantsWrittenByAsin ==
    [][\A i \in DOMAIN tasks :
          FetchedVariants(i)
            => LET n == Len(tasks'[i].details)
                   keys == {VariantKey(i, k) : k \in 1..n}
               IN  /\ DOMAIN db' = DOMAIN db \cup keys
                   /\ \A k \in 1..n :
                         db'[VariantKey(i, k)].json = LastWithAsinOf(i, k)
                   /\ \A key \in DOMAIN db \ keys : db'[key] = db[key]
                   /\ (\A k, m \in 1..n :
                          k # m => tasks'[i].details[k].asin
                                      # tasks'[i].details[m].asin)
                        => /\ Cardinality(keys) = n
                           /\ \A k \in 1..n :
                                 db'[VariantKey(i, k)].json
                                    = tasks'[i].details[k]]_vars

C13_Witness ==
    \E i \in DOMAIN tasks :
        /\ tasks[i].pc = "done"
        /\ ~tasks[i].hit
        /\ Len(tasks[i].details) = 2
        /\ tasks[i].details[1].asin = tasks[i].details[2].asin
        /\ tasks[i].details[1] # tasks[i].details[2]
        /\ LET key == tasks[i].jan \o "_" \o tasks[i].details[2].asin
           IN  /\ key \in DOMAIN db
               /\ db[key].json = tasks[i].details[2]


\* the records of the tasks order[1..k] that returned, in that order
RECURSIVE RecordsOf(_, _)
RecordsOf(order, k) ==
    IF k = 0 THEN << >>
    ELSE RecordsOf(order, k - 1)
            \o (IF tasks[order[k]].ret[1].ok
                THEN tasks[order[k]].ret[1].val ELSE << >>)

\* C16: the results hold the records of the awaited tasks in the order the
\* tasks completed (collected, then done_queue, is that order), each task's
\* records in one block; main returns them in that order.
C16_CompletionOrder ==
    /\ results = RecordsOf(collected, Len(collected))
    /\ mainpc = "done"
          => \/ returned = RecordsOf(collected, Len(collected))
             \/ /\ returned = << >>
                /\ \E k \in 1..Len(results) :
                      HasKey(results[k], "categories")
                         /\ results[k].categories # None
                         /\ Len(results[k].categories[1]) > 0
                         /\ ~HasKey(results[k].categories[1][1], "name")

C16_Witness ==
    /\ mainpc = "done"
    /\ collected = <<2, 1>>
    /\ Returned(1)
    /\ Returned(2)
    /\ tasks[1].ret[1].val # tasks[2].ret[1].val
    /\ Len(tasks[2].ret[1].val) = 2
    /\ returned = tasks[2].ret[1].val \o tasks[1].ret[1].val

\* handling the k-th record of task i raises
VariantFails(i, k) ==
    ~ProductResult(fee_structure, tasks[i].details[k],
                   tasks[i].purchase_price).ok

\* handling some record of task i raises, or its fetch did
TaskFails(i) ==
    \/ \E k \in 1..Len(tasks[i].details) : VariantFails(i, k)
    \/ ~tasks[i].hit /\ catalog[tasks[i].jan].outcome = "timeout"
    \/ ~tasks[i].hit /\ tasks[i].details = << >>

RECURSIVE ReturnedCount(_, _)
ReturnedCount(order, k) ==
    IF k = 0 THEN 0
    ELSE ReturnedCount(order, k - 1)
            + (IF TaskFails(order[k]) THEN 0
               ELSE Len(tasks[order[k]].details))

\* C17: when process_product raises while handling a variant, the task
\* raises as a whole and adds no record to the results of main, not even
\* for the variants handled before; the rows written for all its variants
\* before the loop stay in the cache.
C17_AllOrNothing ==
    /\ Len(results) = ReturnedCount(collected, Len(collected))
    /\ \A i \in DOMAIN tasks :
          (tasks[i].pc = "done"
              /\ \E k \in 1..Len(tasks[i].details) : VariantFails(i, k))
            => /\ Raised(i)
               /\ ~tasks[i].hit
                     => \A k \in 1..Len(tasks[i].details) :
                           (tasks[i].jan \o "_" \o tasks[i].details[k].asin)
                              \in DOMAIN db

C17_Witness ==
    /\ mainpc = "done"
    /\ returned # << >>
    /\ \E i \in DOMAIN tasks :
          /\ Raised(i)
          /\ Len(tasks[i].details) = 2
          /\ ~VariantFails(i, 1)
          /\ VariantFails(i, 2)
          /\ \A k \in 1..2 :
                (tasks[i].jan \o "_" \o tasks[i].details[k].asin)
                   \in DOMAIN db

\* C18: main closes the cache exactly once on either way out, after every
\* task has ended, and no task step or cache write happens while the cache
\* is not open.
C18_ClosedOnceAfterTasks ==
    /\ [](/\ mainpc = "done"
               => /\ closes = 1
                  /\ conn = "closed"
                  /\ \A i \in DOMAIN tasks : tasks[i].pc = "done"
          /\ mainpc = "running" => (closes = 0 /\ conn = "open"))
    /\ [][/\ (\E i \in DOMAIN tasks : TaskSteps(i))
                => (conn = "open" /\ conn' = "open")
          /\ db' # db => (conn = "open" /\ conn' = "open")]_vars

C18_Witness ==
    /\ mainpc = "done"
    /\ results # << >>
    /\ returned = << >>
    /\ closes = 1
    /\ conn = "closed"
    /\ run = MaxRuns


====
